---------------------------- MODULE Spec2Model ----------------------------
(***************************************************************************)
(* State-machine model of scripts/audit-pod-connectivity.py: one run of    *)
(* main() -- the pod listing, the per-container log fetch and scan, the    *)
(* aggregation into `findings` and `all_endpoints`, and the report.        *)
(*                                                                         *)
(* Python dicts are modelled as insertion-ordered sequences of <<key,      *)
(* value>> pairs.  A log text is modelled as the sequence of its lines     *)
(* (what str.splitlines() yields); log lines are real strings, and the     *)
(* results of the regular-expression searches on them are tabulated below  *)
(* (each table row was obtained by running the source's compiled patterns  *)
(* on the string).                                                         *)
(***************************************************************************)
EXTENDS Integers, Sequences, FiniteSets, Bags, TLC

VARIABLES
  pc,            \* position in main(): "get_pods" | "for_pod" | "for_container" | "exited"
  listing,       \* outcome of `kubectl get pods`: "pending" | "failed" | "unparseable" | "ok"
  pods,          \* main.pods: the "items" list returned by get_pods
  pod_idx,       \* number of pods the `for pod in pods` loop has taken so far
  containers,    \* main.containers of the current pod
  ctr_idx,       \* number of containers the inner loop has taken so far
  logs,          \* main.logs: the last log text fetched
  hits,          \* main.hits: the result of the last scan_logs call
  findings,      \* main.findings: dict key -> hit list
  all_endpoints, \* main.all_endpoints: defaultdict endpoint -> count
  stdout,        \* what the process has written to standard output
  stderr,        \* what the process has written to standard error
  exit_status,   \* process exit status, -1 while the process runs
  fetchLog       \* history: every `kubectl logs` invocation made by get_logs, in order

vars == <<pc, listing, pods, pod_idx, containers, ctr_idx, logs, hits,
          findings, all_endpoints, stdout, stderr, exit_status, fetchLog>>

-----------------------------------------------------------------------------
(* Bounds of the model *)

\* longest pod list `kubectl get pods` returns in a run
MaxPods == 2
\* longest log text handed to scan_logs in the scanner specification
MaxLogLines == 3
\* longest hit list handed to the report in the report specification
MaxHits == 8

\* the slice [:5] of the per-container detail
TopLines == 5
\* len(line) > 120
MaxLineLen == 120
\* line[:117]
KeptChars == 117

-----------------------------------------------------------------------------
(* Log lines *)

LineDialTimeout == "dial tcp 10.0.0.5:443: i/o timeout"
LineDialTimeoutPadded == "  dial tcp 10.0.0.5:443: i/o timeout "
LineConnErrorDial == "connection error: dial tcp 10.0.0.9:53: connection refused"
LineNoSuchHost == "lookup db.svc: no such host"
LineAddr == "failed to connect to redis, Addr: redis.cache:6379"
LineUpstream == "upstream connect error or disconnect/reset before headers"
LineFailedConnect == "failed to connect to svc.internal:8080"
LineTimedOut == "connect timed out"
LineConnectingTo == "error connecting to10.0.0.5:443: connection refused"
LineAddrAndDial == "failed to connect to redis, Addr: redis.cache:6379: dial tcp 10.1.2.3:6379: connection refused"
LineLong == "dial tcp 10.0.0.7:8443: i/o timeout while proxying request GET /api/v1/orders?page=2 from ingress-controller to orders-backend (attempt 3 of 3)"
LineInfo == "INFO server started"
LineInfoPadded == "\tINFO server started"
LineEmpty == ""

\* the lines that match at least one pattern and carry no surrounding whitespace,
\* in the order the report specification introduces them into a hit list
HitLineOrder ==
  << LineDialTimeout, LineLong, LineConnErrorDial, LineNoSuchHost, LineAddr,
     LineUpstream, LineFailedConnect, LineTimedOut, LineConnectingTo,
     LineAddrAndDial >>

\* the raw lines a log text of the scanner specification is made of
RawLines ==
  { LineDialTimeout, LineDialTimeoutPadded, LineConnErrorDial, LineNoSuchHost,
    LineAddr, LineUpstream, LineTimedOut, LineInfo, LineInfoPadded, LineEmpty }

-----------------------------------------------------------------------------
(* Regular expressions *)

\* ERROR_PATTERNS, in list order, each named after what it looks for
ERROR_PATTERNS ==
  << "dial_tcp_failure", "connection_error_dial_tcp", "nxdomain_no_such_host",
     "connect_timed_out_refused", "upstream_or_503", "failed_to_connect_to" >>

\* the patterns of ERROR_PATTERNS for which pattern.search(line) finds a match
Matching(line) ==
  CASE line = LineDialTimeout       -> {"dial_tcp_failure"}
    [] line = LineDialTimeoutPadded -> {"dial_tcp_failure"}
    [] line = LineLong              -> {"dial_tcp_failure"}
    [] line = LineConnErrorDial     -> {"dial_tcp_failure", "connection_error_dial_tcp",
                                        "connect_timed_out_refused"}
    [] line = LineNoSuchHost        -> {"nxdomain_no_such_host"}
    [] line = LineAddr              -> {"failed_to_connect_to"}
    [] line = LineUpstream          -> {"upstream_or_503"}
    [] line = LineFailedConnect     -> {"failed_to_connect_to"}
    [] line = LineTimedOut          -> {"connect_timed_out_refused"}
    [] line = LineConnectingTo      -> {"connect_timed_out_refused"}
    [] line = LineAddrAndDial       -> {"dial_tcp_failure", "connect_timed_out_refused",
                                        "failed_to_connect_to"}
    [] OTHER                        -> {}

\* pattern.search(line)
search(pattern, line) == pattern \in Matching(line)

\* line.strip()
strip(line) ==
  CASE line = LineDialTimeoutPadded -> LineDialTimeout
    [] line = LineInfoPadded        -> LineInfo
    [] OTHER                        -> line

\* the two extraction regexes of extract_endpoints, in the order they are tried
ENDPOINT_REGEXES == << "ep_re", "host_re" >>

\* regex.search(line): <<m.group(1)>> when the regex matches, <<>> when it does not
group1(regex, line) ==
  CASE regex = "ep_re" /\ line = LineDialTimeout     -> << "10.0.0.5:443" >>
    [] regex = "ep_re" /\ line = LineLong            -> << "10.0.0.7:8443" >>
    [] regex = "ep_re" /\ line = LineConnErrorDial   -> << "10.0.0.9:53" >>
    [] regex = "ep_re" /\ line = LineAddrAndDial     -> << "10.1.2.3:6379" >>
    [] regex = "host_re" /\ line = LineAddr          -> << "redis.cache:6379" >>
    [] regex = "host_re" /\ line = LineAddrAndDial   -> << "redis.cache:6379" >>
    [] regex = "host_re" /\ line = LineConnectingTo  -> << "10.0.0.5:443" >>
    [] OTHER                                         -> << >>

-----------------------------------------------------------------------------
(* Python dicts: insertion-ordered sequences of <<key, value>> pairs *)

DictHas(d, k) == \E n \in 1..Len(d) : d[n][1] = k

DictKeys(d) == { d[n][1] : n \in 1..Len(d) }

\* d.get(k, default)
DictGet(d, k, default) ==
  IF DictHas(d, k) THEN d[CHOOSE n \in 1..Len(d) : d[n][1] = k][2] ELSE default

\* d[k] = v: a present key keeps its place, a new key goes last
DictSet(d, k, v) ==
  IF DictHas(d, k)
    THEN [n \in 1..Len(d) |-> IF d[n][1] = k THEN <<k, v>> ELSE d[n]]
    ELSE Append(d, <<k, v>>)

\* d[k] += c on a defaultdict(int)
DictAdd(d, k, c) == DictSet(d, k, DictGet(d, k, 0) + c)

\* record.get(field, default) on a JSON object
Get(obj, field, default) == IF field \in DOMAIN obj THEN obj[field] ELSE default

-----------------------------------------------------------------------------
(* scan_logs *)

\* the body of `for line in ...`, from the k-th pattern on: the hits this line
\* appends.  The first pattern that matches appends the stripped line and
\* breaks out of the pattern loop.
\* LineHits without the `break`
RECURSIVE LineHitsNoBreak(_, _)
LineHitsNoBreak(line, k) ==
  IF k > Len(ERROR_PATTERNS) THEN << >>
  ELSE (IF search(ERROR_PATTERNS[k], line) THEN << strip(line) >> ELSE << >>)
       \o LineHitsNoBreak(line, k + 1)

RECURSIVE LineHits(_, _)
LineHits(line, k) ==
  IF k > Len(ERROR_PATTERNS) THEN << >>
  ELSE IF search(ERROR_PATTERNS[k], line) THEN << strip(line) >>
  ELSE LineHits(line, k + 1)

RECURSIVE ScanFrom(_, _)
ScanFrom(log_text, n) ==
  IF n > Len(log_text) THEN << >>
  ELSE LineHits(log_text[n], 1) \o ScanFrom(log_text, n + 1)

scan_logs(log_text) == ScanFrom(log_text, 1)

-----------------------------------------------------------------------------
(* extract_endpoints *)

\* the body of `for line in hits`, from the k-th regex on: the endpoints dict
\* after this line.  The first regex that matches counts its group and breaks.
RECURSIVE CountEndpoint(_, _, _)
CountEndpoint(endpoints, line, k) ==
  IF k > Len(ENDPOINT_REGEXES) THEN endpoints
  ELSE IF group1(ENDPOINT_REGEXES[k], line) # << >>
         THEN DictAdd(endpoints, group1(ENDPOINT_REGEXES[k], line)[1], 1)
  ELSE CountEndpoint(endpoints, line, k + 1)

RECURSIVE ExtractFrom(_, _, _)
ExtractFrom(endpoints, hit_lines, n) ==
  IF n > Len(hit_lines) THEN endpoints
  ELSE ExtractFrom(CountEndpoint(endpoints, hit_lines[n], 1), hit_lines, n + 1)

extract_endpoints(hit_lines) == ExtractFrom(<< >>, hit_lines, 1)

\* MergeEndpoints with `=` for `+=`
RECURSIVE MergeEndpointsOverwrite(_, _, _)
MergeEndpointsOverwrite(tally, items, n) ==
  IF n > Len(items) THEN tally
  ELSE MergeEndpointsOverwrite(DictSet(tally, items[n][1], items[n][2]), items, n + 1)

\* for ep, count in extract_endpoints(hits).items(): all_endpoints[ep] += count
RECURSIVE MergeEndpoints(_, _, _)
MergeEndpoints(tally, items, n) ==
  IF n > Len(items) THEN tally
  ELSE MergeEndpoints(DictAdd(tally, items[n][1], items[n][2]), items, n + 1)

-----------------------------------------------------------------------------
(* The report *)

\* one print() call: what is printed (kind), its text and its number
Item(kind, text, n) == [kind |-> kind, text |-> text, n |-> n]

\* InsertByCount for key=lambda x: x[1], the sort ascending
InsertByCountAscending(sorted, item) ==
  LET p == Cardinality({ n \in 1..Len(sorted) : sorted[n][2] <= item[2] })
  IN  SubSeq(sorted, 1, p) \o << item >> \o SubSeq(sorted, p + 1, Len(sorted))

\* one step of the stable sort by key=lambda x: -x[1]: `item` goes after every
\* pair whose count is at least its own
InsertByCount(sorted, item) ==
  LET p == Cardinality({ n \in 1..Len(sorted) : sorted[n][2] >= item[2] })
  IN  SubSeq(sorted, 1, p) \o << item >> \o SubSeq(sorted, p + 1, Len(sorted))

RECURSIVE SortFrom(_, _, _)
SortFrom(sorted, items, n) ==
  IF n > Len(items) THEN sorted
  ELSE SortFrom(InsertByCount(sorted, items[n]), items, n + 1)

\* sorted(d.items(), key=lambda x: -x[1])
SortedByCountDesc(d) == SortFrom(<< >>, d, 1)

\* for h in hits: line_counts[h] += 1
RECURSIVE CountLines(_, _, _)
CountLines(line_counts, hit_lines, n) ==
  IF n > Len(hit_lines) THEN line_counts
  ELSE CountLines(DictAdd(line_counts, hit_lines[n], 1), hit_lines, n + 1)

\* the slice [:5]
TopSlice(items) ==
  SubSeq(items, 1, IF Len(items) < TopLines THEN Len(items) ELSE TopLines)

\* if len(line) > 120: line = line[:117] + "..."
Truncate(line) ==
  IF Len(line) > MaxLineLen THEN SubSeq(line, 1, KeptChars) \o "..." ELSE line

\* the body of `for key, hits in sorted(findings.items())`: what it prints
DetailLines(key, hit_lines) ==
  LET line_counts == CountLines(<< >>, hit_lines, 1)
      shown == TopSlice(SortedByCountDesc(line_counts))
  IN  << Item("container", key, 0) >>
      \o [ n \in 1..Len(shown) |->
             Item(IF shown[n][2] > 1 THEN "counted_line" ELSE "line",
                  Truncate(shown[n][1]), shown[n][2]) ]
      \o (IF Len(line_counts) > TopLines
            THEN << Item("more", "", Len(line_counts) - TopLines) >>
            ELSE << >>)

\* every container key a run can build, in ascending string order
KeyOrder ==
  << "default/db/app", "default/web/app", "default/web/sidecar" >>

\* sorted(findings.items()): the keys are unique, so the pairs sort by key
SortedByKey(d) ==
  LET present == SelectSeq(KeyOrder, LAMBDA k : DictHas(d, k))
  IN  [ n \in 1..Len(present) |-> << present[n], DictGet(d, present[n], << >>) >> ]

RECURSIVE DetailFrom(_, _)
DetailFrom(items, n) ==
  IF n > Len(items) THEN << >>
  ELSE DetailLines(items[n][1], items[n][2]) \o DetailFrom(items, n + 1)

\* ReportLines without the `return` after "No connectivity errors found."
ReportLinesNoReturn(found, tally) ==
  (IF found = << >> THEN << Item("no_findings", "", 0) >> ELSE << >>)
  \o << Item("rule", "", 0), Item("endpoints_title", "", 0), Item("rule", "", 0) >>
  \o [ n \in 1..Len(SortedByCountDesc(tally)) |->
         Item("endpoint", SortedByCountDesc(tally)[n][1], SortedByCountDesc(tally)[n][2]) ]
  \o << Item("blank_rule", "", 0), Item("pods_title", "", Len(found)), Item("rule", "", 0) >>
  \o DetailFrom(SortedByKey(found), 1)

\* everything main prints after the fetch loop
ReportLines(found, tally) ==
  IF found = << >> THEN << Item("no_findings", "", 0) >>
  ELSE LET eps == SortedByCountDesc(tally)
       IN  << Item("rule", "", 0), Item("endpoints_title", "", 0), Item("rule", "", 0) >>
           \o [ n \in 1..Len(eps) |-> Item("endpoint", eps[n][1], eps[n][2]) ]
           \o << Item("blank_rule", "", 0), Item("pods_title", "", Len(found)),
                 Item("rule", "", 0) >>
           \o DetailFrom(SortedByKey(found), 1)

-----------------------------------------------------------------------------
(* Pod records: the JSON objects under "items" *)

Meta(name) == [name |-> name, namespace |-> "default"]

Container(name) == [name |-> name]

Pod(name, entries) == [metadata |-> Meta(name), spec |-> [containers |-> entries]]

\* the pod records of a listing: well-formed ones with no, one and two
\* containers, and ones that lack "spec", "containers", a container's "name",
\* "metadata" or the "namespace" of the metadata
PodRecords ==
  { Pod("web", << Container("app") >>),
    Pod("web", << Container("app"), Container("sidecar") >>),
    Pod("db", << >>),
    Pod("db", << Container("app") >>),
    Pod("db", << Container("app"), [image |-> "busybox"] >>),
    [metadata |-> Meta("web")],
    [metadata |-> Meta("db"), spec |-> [nodeName |-> "node-1"]],
    [spec |-> [containers |-> << Container("app") >>]],
    [metadata |-> [name |-> "web"], spec |-> [containers |-> << Container("app") >>]] }

\* the pod lists get_pods can return
PodLists == UNION { [1..n -> PodRecords] : n \in 0..MaxPods }

\* the log texts `kubectl logs` returns in a run of main
LogTexts ==
  { << >>,
    << LineInfo >>,
    << LineDialTimeoutPadded, LineInfo, LineAddr >>,
    << LineNoSuchHost, LineConnErrorDial, LineDialTimeout, LineDialTimeout >> }

\* pod.get("spec", {}).get("containers", [])
ContainerEntries(pod) == Get(Get(pod, "spec", << >>), "containers", << >>)

\* lines 93-95 on one pod record: the uncaught KeyError, << >> when there is none
PodError(pod) ==
  IF "metadata" \notin DOMAIN pod
    THEN << Item("traceback", "KeyError: 'metadata'", 93) >>
  ELSE IF "name" \notin DOMAIN pod.metadata
    THEN << Item("traceback", "KeyError: 'name'", 93) >>
  ELSE IF "namespace" \notin DOMAIN pod.metadata
    THEN << Item("traceback", "KeyError: 'namespace'", 94) >>
  ELSE IF \E n \in 1..Len(ContainerEntries(pod)) : "name" \notin DOMAIN ContainerEntries(pod)[n]
    THEN << Item("traceback", "KeyError: 'name'", 95) >>
  ELSE << >>

\* [c["name"] for c in pod.get("spec", {}).get("containers", [])]
ContainerNames(pod) ==
  [ n \in 1..Len(ContainerEntries(pod)) |-> ContainerEntries(pod)[n].name ]

\* f"{ns}/{pod_name}/{container}"
Key(pod, container) ==
  pod.metadata.namespace \o "/" \o pod.metadata.name \o "/" \o container

-----------------------------------------------------------------------------
(* main *)

\* the state when main() is entered
Init ==
  /\ pc = "get_pods"
  /\ listing = "pending"
  /\ pods = << >>
  /\ pod_idx = 0
  /\ containers = << >>
  /\ ctr_idx = 0
  /\ logs = << >>
  /\ hits = << >>
  /\ findings = << >>
  /\ all_endpoints = << >>
  /\ stdout = << >>
  /\ stderr = << >>
  /\ exit_status = -1
  /\ fetchLog = << >>

\* an uncaught exception: the traceback goes to standard error, the status is 1
Crash(traceback) ==
  /\ pc' = "exited"
  /\ stderr' = stderr \o traceback
  /\ exit_status' = 1

\* GetPodsFailed without sys.exit(1): main goes on with no pods
GetPodsFailedNoExit ==
  /\ pc = "get_pods"
  /\ listing' = "failed"
  /\ stderr' = Append(stderr, Item("error", "ERROR: kubectl get pods failed", 0))
  /\ stdout' = Append(stdout, Item("banner", "", 0))
  /\ pc' = "for_pod"
  /\ UNCHANGED <<pods, pod_idx, containers, ctr_idx, logs, hits, findings,
                 all_endpoints, exit_status, fetchLog>>

\* get_pods: `kubectl get pods` exits nonzero
GetPodsFailed ==
  /\ pc = "get_pods"
  /\ listing' = "failed"
  /\ stderr' = Append(stderr, Item("error", "ERROR: kubectl get pods failed", 0))
  /\ exit_status' = 1
  /\ pc' = "exited"
  /\ UNCHANGED <<pods, pod_idx, containers, ctr_idx, logs, hits, findings,
                 all_endpoints, stdout, fetchLog>>

\* get_pods: the command exits 0 and json.loads(result.stdout)["items"] raises
GetPodsUnparseable ==
  /\ pc = "get_pods"
  /\ listing' = "unparseable"
  /\ Crash(<< Item("traceback", "json.JSONDecodeError or KeyError: 'items'", 40) >>)
  /\ UNCHANGED <<pods, pod_idx, containers, ctr_idx, logs, hits, findings,
                 all_endpoints, stdout, fetchLog>>

\* get_pods returns the items; main prints the banner and empties its dicts
GetPodsReturned ==
  /\ pc = "get_pods"
  /\ \E items \in PodLists :
       /\ pods' = items
       /\ stdout' = Append(stdout, Item("banner", "", Len(items)))
  /\ listing' = "ok"
  /\ findings' = << >>
  /\ all_endpoints' = << >>
  /\ pc' = "for_pod"
  /\ UNCHANGED <<pod_idx, containers, ctr_idx, logs, hits, stderr, exit_status, fetchLog>>

\* `for pod in pods` takes the next pod: lines 93-95
NextPod ==
  /\ pc = "for_pod"
  /\ pod_idx < Len(pods)
  /\ pod_idx' = pod_idx + 1
  /\ LET pod == pods[pod_idx + 1]
     IN  IF PodError(pod) # << >>
           THEN /\ Crash(PodError(pod))
                /\ UNCHANGED <<containers, ctr_idx>>
           ELSE /\ containers' = ContainerNames(pod)
                /\ ctr_idx' = 0
                /\ pc' = "for_container"
                /\ UNCHANGED <<stderr, exit_status>>
  /\ UNCHANGED <<listing, pods, logs, hits, findings, all_endpoints, stdout, fetchLog>>

\* one `kubectl logs` invocation, as the history keeps it
Fetched(timed_out, text) ==
  [ pod |-> pod_idx, ctr |-> ctr_idx + 1,
    key |-> Key(pods[pod_idx], containers[ctr_idx + 1]),
    timed_out |-> timed_out, text |-> text ]

\* FetchTimeout that fetches the same container again
FetchTimeoutRetry ==
  /\ pc = "for_container"
  /\ ctr_idx < Len(containers)
  /\ stderr' = Append(stderr, Item("warn", Key(pods[pod_idx], containers[ctr_idx + 1]), 0))
  /\ fetchLog' = Append(fetchLog, Fetched(TRUE, << >>))
  /\ UNCHANGED <<pc, listing, pods, pod_idx, containers, ctr_idx, logs, hits, findings,
                 all_endpoints, stdout, exit_status>>

\* get_logs raises subprocess.TimeoutExpired: warn and `continue`
FetchTimeout ==
  /\ pc = "for_container"
  /\ ctr_idx < Len(containers)
  /\ ctr_idx' = ctr_idx + 1
  /\ stderr' = Append(stderr, Item("warn", Key(pods[pod_idx], containers[ctr_idx + 1]), 0))
  /\ fetchLog' = Append(fetchLog, Fetched(TRUE, << >>))
  /\ UNCHANGED <<pc, listing, pods, pod_idx, containers, logs, hits, findings,
                 all_endpoints, stdout, exit_status>>

\* RecordFindings without `if hits`
RecordFindingsAlways(found, key, hit_lines) == DictSet(found, key, hit_lines)

\* findings[key] = hits, under `if hits`
RecordFindings(found, key, hit_lines) ==
  IF hit_lines # << >> THEN DictSet(found, key, hit_lines) ELSE found

\* the loop over extract_endpoints(hits).items(), under `if hits`
TallyEndpoints(tally, hit_lines) ==
  IF hit_lines # << >>
    THEN MergeEndpoints(tally, extract_endpoints(hit_lines), 1)
    ELSE tally

\* get_logs returns `text`: lines 99 and 104-109
FetchReturns(text) ==
  /\ pc = "for_container"
  /\ ctr_idx < Len(containers)
  /\ ctr_idx' = ctr_idx + 1
  /\ logs' = text
  /\ hits' = scan_logs(text)
  /\ findings' = RecordFindings(findings, Key(pods[pod_idx], containers[ctr_idx + 1]), hits')
  /\ all_endpoints' = TallyEndpoints(all_endpoints, hits')
  /\ fetchLog' = Append(fetchLog, Fetched(FALSE, text))
  /\ UNCHANGED <<pc, listing, pods, pod_idx, containers, stdout, stderr, exit_status>>

FetchLogs == \E text \in LogTexts : FetchReturns(text)

\* the inner loop is exhausted: back to `for pod in pods`
EndPod ==
  /\ pc = "for_container"
  /\ ctr_idx = Len(containers)
  /\ pc' = "for_pod"
  /\ UNCHANGED <<listing, pods, pod_idx, containers, ctr_idx, logs, hits, findings,
                 all_endpoints, stdout, stderr, exit_status, fetchLog>>

\* the outer loop is exhausted: lines 111-139, then main returns
Report ==
  /\ pc = "for_pod"
  /\ pod_idx = Len(pods)
  /\ stdout' = stdout \o ReportLines(findings, all_endpoints)
  /\ exit_status' = 0
  /\ pc' = "exited"
  /\ UNCHANGED <<listing, pods, pod_idx, containers, ctr_idx, logs, hits, findings,
                 all_endpoints, stderr, fetchLog>>

Next ==
  \/ GetPodsFailed
  \/ GetPodsUnparseable
  \/ GetPodsReturned
  \/ NextPod
  \/ FetchTimeout
  \/ FetchLogs
  \/ EndPod
  \/ Report

Spec == Init /\ [][Next]_vars

-----------------------------------------------------------------------------
(* The scanner on its own: main at the fetch of the one container of one    *)
(* pod, where the log text ranges over every text of up to MaxLogLines raw  *)
(* lines.                                                                   *)

OnePod == Pod("web", << Container("app") >>)

ScanTexts == UNION { [1..n -> RawLines] : n \in 0..MaxLogLines }

InitScan ==
  /\ pc = "for_container"
  /\ listing = "ok"
  /\ pods = << OnePod >>
  /\ pod_idx = 1
  /\ containers = ContainerNames(OnePod)
  /\ ctr_idx = 0
  /\ logs = << >>
  /\ hits = << >>
  /\ findings = << >>
  /\ all_endpoints = << >>
  /\ stdout = << Item("banner", "", 1) >>
  /\ stderr = << >>
  /\ exit_status = -1
  /\ fetchLog = << >>

FetchAnyLogs == \E text \in ScanTexts : FetchReturns(text)

NextScan == FetchAnyLogs

SpecScan == InitScan /\ [][NextScan]_vars

-----------------------------------------------------------------------------
(* The report on its own: main at the end of the fetch loop over one pod    *)
(* with one container, whose log was a hit list of up to MaxHits lines.     *)
(* The distinct lines of a hit list first occur in the order of             *)
(* HitLineOrder: the report treats lines alike but for their length, and    *)
(* the one long line is among the first two.                                *)

DistinctLines(lines) == { lines[n] : n \in 1..Len(lines) }

RECURSIVE HitListsOfLen(_)
HitListsOfLen(n) ==
  IF n = 0 THEN { << >> }
  ELSE UNION { { Append(s, HitLineOrder[v]) :
                   v \in 1..(IF Cardinality(DistinctLines(s)) < Len(HitLineOrder)
                               THEN Cardinality(DistinctLines(s)) + 1
                               ELSE Len(HitLineOrder)) } :
               s \in HitListsOfLen(n - 1) }

HitLists == UNION { HitListsOfLen(n) : n \in 0..MaxHits }

InitReport ==
  /\ pc = "for_pod"
  /\ listing = "ok"
  /\ pods = << OnePod >>
  /\ pod_idx = 1
  /\ containers = ContainerNames(OnePod)
  /\ ctr_idx = 1
  /\ \E text \in HitLists :
       /\ logs = text
       /\ hits = scan_logs(text)
       /\ findings = RecordFindings(<< >>, Key(OnePod, "app"), scan_logs(text))
       /\ all_endpoints = TallyEndpoints(<< >>, scan_logs(text))
       /\ fetchLog = << [pod |-> 1, ctr |-> 1, key |-> Key(OnePod, "app"),
                         timed_out |-> FALSE, text |-> text] >>
  /\ stdout = << Item("banner", "", 1) >>
  /\ stderr = << >>
  /\ exit_status = -1

NextReport == Report

SpecReport == InitReport /\ [][NextReport]_vars

-----------------------------------------------------------------------------
(* Vocabulary of the properties *)

\* the run ended in an uncaught exception
Crashed == \E n \in 1..Len(stderr) : stderr[n].kind = "traceback"

\* main returned: the fetch loop ran to its end and the report was written
Returned == pc = "exited" /\ exit_status = 0

\* the fetch loop has run to its end
LoopEnded == (pc = "for_pod" /\ pod_idx = Len(pods)) \/ Returned

\* the `kubectl logs` invocations that returned a text in which scan_logs finds a hit
ScansWithHits ==
  { n \in 1..Len(fetchLog) : ~fetchLog[n].timed_out /\ scan_logs(fetchLog[n].text) # << >> }

\* the (pod, container) places of the invocations, in the order they were made
FetchedPositions == [ n \in 1..Len(fetchLog) |-> << fetchLog[n].pod, fetchLog[n].ctr >> ]

RECURSIVE SumOf(_)
SumOf(f) ==
  IF DOMAIN f = {} THEN 0
  ELSE LET x == CHOOSE x \in DOMAIN f : TRUE
       IN  f[x] + SumOf([ y \in DOMAIN f \ {x} |-> f[y] ])

\* every endpoint a line of the model can yield
Endpoints ==
  { group1(ENDPOINT_REGEXES[k], HitLineOrder[n])[1] :
      << k, n >> \in { kn \in (1..Len(ENDPOINT_REGEXES)) \X (1..Len(HitLineOrder)) :
                         group1(ENDPOINT_REGEXES[kn[1]], HitLineOrder[kn[2]]) # << >> } }

-----------------------------------------------------------------------------
(* C2 *)

\* C2: when `kubectl get pods` exits nonzero the process has exited with a
\* nonzero status, standard error holds the error message and nothing else,
\* no log fetch was ever made and standard output is empty (no banner, no
\* summary, no detail).
C2_ListingFailureIsFatal ==
  listing = "failed" =>
    /\ pc = "exited"
    /\ exit_status > 0
    /\ stderr = << Item("error", "ERROR: kubectl get pods failed", 0) >>
    /\ fetchLog = << >>
    /\ stdout = << >>

C2_Witness == listing = "failed" /\ pc = "exited" /\ exit_status = 1

-----------------------------------------------------------------------------
(* C3 *)

\* C3: whenever the pod listing succeeded and parsed, a process that has
\* exited has exited with status 0, whatever the pod records hold and
\* whatever the log fetches did.
C3_ExitZeroWheneverListed == (listing = "ok" /\ pc = "exited") => exit_status = 0

-----------------------------------------------------------------------------
(* C4 *)

\* no fetch so far returned a text with a hit
NoHits == listing = "ok" /\ ScansWithHits = {}

-----------------------------------------------------------------------------
(* C5 *)

\* the bag of the scanned log texts that had a hit: how often each was
\* returned, whatever the order of the fetches
ScannedBag ==
  [ t \in { fetchLog[n].text : n \in ScansWithHits } |->
      Cardinality({ n \in ScansWithHits : fetchLog[n].text = t }) ]

\* the per-container count of endpoint ep in a container whose log was `text`
ContainerCount(text, ep) == DictGet(extract_endpoints(scan_logs(text)), ep, 0)

\* the sum, over the bag, of the per-container counts of every endpoint
SumOverBag(bag) ==
  LET counts == [ t \in BagToSet(bag) |-> extract_endpoints(scan_logs(t)) ]
  IN  [ ep \in Endpoints |->
          SumOf([ t \in BagToSet(bag) |-> CopiesIn(t, bag) * DictGet(counts[t], ep, 0) ]) ]

\* C5: at the end of the fetch loop the global tally holds, for every
\* endpoint, the sum of the per-container counts over the containers scanned
\* with a hit (every entry has a positive count, no endpoint has two).  The
\* sum is taken over the bag of scanned texts, which keeps no order: two runs
\* that scan the same containers in different orders end with the same counts.
C5_TallyIsSumOverBag ==
  LoopEnded =>
    LET sums == SumOverBag(ScannedBag)
    IN  /\ [ ep \in Endpoints |-> DictGet(all_endpoints, ep, 0) ] = sums
        /\ \A n \in 1..Len(all_endpoints) :
             all_endpoints[n][1] \in Endpoints /\ all_endpoints[n][2] > 0
        /\ Len(all_endpoints) = Cardinality(DictKeys(all_endpoints))

\* two containers with different logs both counted the same endpoint, and the
\* tally holds a second endpoint too
C5_Witness ==
  /\ LoopEnded
  /\ \E m, n \in ScansWithHits :
       /\ fetchLog[m].text # fetchLog[n].text
       /\ \E ep \in Endpoints :
            /\ ContainerCount(fetchLog[m].text, ep) > 0
            /\ ContainerCount(fetchLog[n].text, ep) > 1
            /\ DictGet(all_endpoints, ep, 0) > 2
  /\ Len(all_endpoints) > 1

-----------------------------------------------------------------------------
(* C1 *)

\* place <<p, c>> comes after place <<q, d>> in the pod list
After(p, c, q, d) == p > q \/ (p = q /\ c > d)

\* findings and all_endpoints as the first n fetches leave them when the
\* fetches that timed out contribute nothing
RECURSIVE FindingsWithoutTimeouts(_)
FindingsWithoutTimeouts(n) ==
  IF n = 0 THEN << >>
  ELSE IF fetchLog[n].timed_out THEN FindingsWithoutTimeouts(n - 1)
  ELSE RecordFindings(FindingsWithoutTimeouts(n - 1), fetchLog[n].key,
                      scan_logs(fetchLog[n].text))

RECURSIVE TallyWithoutTimeouts(_)
TallyWithoutTimeouts(n) ==
  IF n = 0 THEN << >>
  ELSE IF fetchLog[n].timed_out THEN TallyWithoutTimeouts(n - 1)
  ELSE TallyEndpoints(TallyWithoutTimeouts(n - 1), scan_logs(fetchLog[n].text))

\* C1: the fetches that timed out contributed nothing to findings or to the
\* endpoint tally; for each of them a warning naming the container is on
\* standard error; and once the process has exited every named container that
\* follows it in the pod list (in the same pod or in a later pod) has been
\* fetched: the run was not cut short.
C1_TimeoutNeverCutsTheRunShort ==
  /\ listing = "ok" =>
       /\ findings = FindingsWithoutTimeouts(Len(fetchLog))
       /\ all_endpoints = TallyWithoutTimeouts(Len(fetchLog))
  /\ \A n \in 1..Len(fetchLog) :
       fetchLog[n].timed_out =>
         /\ \E m \in 1..Len(stderr) : stderr[m] = Item("warn", fetchLog[n].key, 0)
         /\ pc = "exited" =>
              \A p \in 1..Len(pods) :
                \A c \in 1..Len(ContainerEntries(pods[p])) :
                  ( /\ After(p, c, fetchLog[n].pod, fetchLog[n].ctr)
                    /\ "name" \in DOMAIN ContainerEntries(pods[p])[c] )
                  => \E m \in 1..Len(fetchLog) : FetchedPositions[m] = << p, c >>

\* the part of C1 that a run cut short does not touch: the same statement for
\* the runs in which main returned
C1_HoldsWhenMainReturns == Returned => C1_TimeoutNeverCutsTheRunShort

-----------------------------------------------------------------------------
(* C7 *)

\* the container fields of a pod record are missing or malformed
ContainerFieldsMissing(pod) ==
  \/ "spec" \notin DOMAIN pod
  \/ "containers" \notin DOMAIN pod.spec
  \/ ContainerEntries(pod) = << >>
  \/ \E n \in 1..Len(ContainerEntries(pod)) : "name" \notin DOMAIN ContainerEntries(pod)[n]

\* the metadata of a pod record is complete
MetadataComplete(pod) ==
  /\ "metadata" \in DOMAIN pod
  /\ {"name", "namespace"} \subseteq DOMAIN pod.metadata

\* C7: a pod the loop has taken whose container fields are missing or
\* malformed is skipped: no log fetch was made for it and no error was raised
\* on it (the run did not end at that pod with a nonzero status).
C7_MalformedPodIsSkipped ==
  \A p \in 1..pod_idx :
    (MetadataComplete(pods[p]) /\ ContainerFieldsMissing(pods[p])) =>
      /\ \A n \in 1..Len(fetchLog) : fetchLog[n].pod # p
      /\ ~(pc = "exited" /\ exit_status # 0 /\ pod_idx = p)

-----------------------------------------------------------------------------
(* C8 *)

\* the line matches at least one pattern of ERROR_PATTERNS
MatchesAny(line) == \E k \in 1..Len(ERROR_PATTERNS) : search(ERROR_PATTERNS[k], line)

\* C8 as amended: scan_logs returns, in source order, the whitespace-trimmed
\* copies of exactly those lines of the text that match at least one pattern,
\* one hit per matching line however many patterns it matches; so there are
\* never more hits than lines, and a text without a matching line gives no hit.
C8_HitsAreTrimmedMatchingLines ==
  LET matching == SelectSeq(logs, MatchesAny)
  IN  /\ hits = [ n \in 1..Len(matching) |-> strip(matching[n]) ]
      /\ Len(hits) <= Len(logs)
      /\ (\A n \in 1..Len(logs) : ~MatchesAny(logs[n])) => hits = << >>

\* a text with a padded matching line, a line no pattern matches and a line
\* three patterns match
C8_Witness ==
  /\ logs = << LineDialTimeoutPadded, LineInfo, LineConnErrorDial >>
  /\ hits = << LineDialTimeout, LineConnErrorDial >>

\* C8 as claimed: scan_logs returns exactly the subsequence of the lines of
\* the text that match at least one pattern.
C8_HitsAreMatchingLines == hits = SelectSeq(logs, MatchesAny)

-----------------------------------------------------------------------------
(* C9 *)

\* the last fetch with a hit made for container key k
LastScanOf(k) ==
  CHOOSE n \in ScansWithHits :
    /\ fetchLog[n].key = k
    /\ \A m \in ScansWithHits : fetchLog[m].key = k => m <= n

\* C9: in every state every key of findings maps to a non-empty hit list, no
\* key occurs twice, and a key is present exactly when a fetch of that
\* container returned (did not time out) and its log had at least one hit; it
\* then maps to the hits of the last such fetch.
C9_FindingsHoldOnlyHits ==
  /\ \A n \in 1..Len(findings) : findings[n][2] # << >>
  /\ Len(findings) = Cardinality(DictKeys(findings))
  /\ DictKeys(findings) = { fetchLog[n].key : n \in ScansWithHits }
  /\ \A k \in DictKeys(findings) :
       DictGet(findings, k, << >>) = scan_logs(fetchLog[LastScanOf(k)].text)

\* a container with hits is kept while a container whose fetch timed out and
\* a container whose log had no hit are not
C9_Witness ==
  /\ findings # << >>
  /\ \E n \in 1..Len(fetchLog) :
       fetchLog[n].timed_out /\ ~DictHas(findings, fetchLog[n].key)
  /\ \E n \in 1..Len(fetchLog) :
       /\ ~fetchLog[n].timed_out
       /\ fetchLog[n].text # << >>
       /\ ~DictHas(findings, fetchLog[n].key)

-----------------------------------------------------------------------------
(* C10 *)

\* the places of pod p the loop has fetched: none when lines 93-95 raised on
\* its record, those up to ctr_idx while the inner loop is in it, all after
PodPositions(p) ==
  IF PodError(pods[p]) # << >> THEN << >>
  ELSE [ c \in 1..(IF p = pod_idx /\ pc = "for_container"
                     THEN ctr_idx
                     ELSE Len(ContainerNames(pods[p]))) |-> << p, c >> ]

RECURSIVE PositionsUpTo(_)
PositionsUpTo(p) == IF p = 0 THEN << >> ELSE PositionsUpTo(p - 1) \o PodPositions(p)

\* C10: the log fetches made so far are, in order, exactly the (pod,
\* container) places of the pod list up to the place the loops have reached,
\* each once (none twice, none out of order, none again after a timeout or an
\* empty result), each for the container at that place; and the report is on
\* standard output only when the loops have passed the last container.
C10_FetchesFollowThePodList ==
  /\ FetchedPositions = PositionsUpTo(pod_idx)
  /\ \A n \in 1..Len(fetchLog) :
       fetchLog[n].key =
         Key(pods[fetchLog[n].pod], ContainerNames(pods[fetchLog[n].pod])[fetchLog[n].ctr])
  /\ Len(stdout) > 1 =>
       /\ pod_idx = Len(pods)
       /\ pc = "exited"
       /\ FetchedPositions = PositionsUpTo(Len(pods))
       /\ \A p \in 1..Len(pods) : PodError(pods[p]) = << >>

\* a finished run over two pods in which a fetch timed out and a fetch
\* returned nothing, each followed by a further fetch
C10_Witness ==
  /\ Returned
  /\ Len(fetchLog) >= 3
  /\ fetchLog[1].timed_out
  /\ ~fetchLog[2].timed_out /\ fetchLog[2].text = << >>
  /\ fetchLog[Len(fetchLog)].pod = 2

-----------------------------------------------------------------------------
(* C6 *)

\* how often `line` occurs in a hit list
Occurrences(lines, line) == Cardinality({ n \in 1..Len(lines) : lines[n] = line })

\* what the report printed for container key k: the items after its
\* "container" item, up to the next "container" item
Section(k) ==
  LET q == CHOOSE q \in 1..Len(stdout) : stdout[q] = Item("container", k, 0)
      later == { m \in (q + 1)..Len(stdout) : stdout[m].kind = "container" }
      stop == IF later = {} THEN Len(stdout) + 1
              ELSE CHOOSE m \in later : \A o \in later : m <= o
  IN  SubSeq(stdout, q + 1, stop - 1)

IsDetailLine(item) == item.kind \in {"line", "counted_line"}

IsMoreNotice(item) == item.kind = "more"

\* C6: once main has returned, for every container of findings with n
\* distinct hit lines the detail holds exactly min(n, 5) lines, each a distinct
\* hit line (cut to 120 characters) with its repeat count, and together those
\* with the highest repeat counts (for every count c, as many printed lines
\* have a count of at least c as there are such hit lines, up to 5); after
\* them comes the notice "... and n-5 more unique error lines" if and only if
\* n > 5, and nothing else.
C6_DetailShowsTopFive ==
  Returned =>
    \A i \in 1..Len(findings) :
      LET k == findings[i][1]
          h == findings[i][2]
          d == DistinctLines(h)
          n == Cardinality(d)
          printed == SelectSeq(Section(k), IsDetailLine)
          notice == SelectSeq(Section(k), IsMoreNotice)
      IN  /\ Len(printed) = IF n < 5 THEN n ELSE 5
          /\ Section(k) = printed \o notice
          /\ \A m \in 1..Len(printed) :
               \E line \in d :
                 /\ printed[m].text = Truncate(line)
                 /\ printed[m].n = Occurrences(h, line)
          /\ \A c \in 1..Len(h) :
               LET atLeast == Cardinality({ line \in d : Occurrences(h, line) >= c })
               IN  Cardinality({ m \in 1..Len(printed) : printed[m].n >= c })
                     = IF atLeast < 5 THEN atLeast ELSE 5
          /\ notice = IF n > 5 THEN << Item("more", "", n - 5) >> ELSE << >>

\* the report of a container with 8 distinct hit lines: 5 lines and "and 3 more"
C6_Witness ==
  /\ Returned
  /\ Cardinality(DistinctLines(hits)) = 8
  /\ Len(SelectSeq(stdout, IsDetailLine)) = 5
  /\ \E m \in 1..Len(stdout) : stdout[m] = Item("more", "", 3)

=============================================================================
